---------------------------- MODULE Spec2Model ----------------------------
(***************************************************************************)
(* A model of the Lisp interpreter of src/typescript/lisp.ts: the token    *)
(* and s-expression data model, the lexer, the pretty-printer, append,     *)
(* the recursive-descent parser, the tree-walking evaluator with its       *)
(* builtins, and main.                                                     *)
(*                                                                         *)
(* Representation.  A JavaScript string is a sequence of one-character     *)
(* strings, so that the lexer can scan it and the pretty-printer's text    *)
(* can be lexed again.  Cursors are 0-based as in the source: the          *)
(* character program[i] of the source is program[i + 1] here.  A Sexp      *)
(* pair [a, b] is the tuple <<a, b>>: pair[0] of the source is pair[1]     *)
(* here and pair[1] is pair[2].  A Context (a Map, passed by reference)    *)
(* is an index into heap, the sequence of all Maps created so far.  A      *)
(* thrown Error is a value [t |-> "error", message |-> ...] that every     *)
(* caller passes on unchanged, as no code of the program catches.          *)
(***************************************************************************)
EXTENDS Integers, Sequences, FiniteSets, TLC

VARIABLES
    pc,       \* the position of main (or of the pure-function drivers)
    input,    \* the drawn input, as drawn (lexemes and separator, or forms)
    program,  \* process.argv[2]: the program text
    lex_i,    \* the index i of the outer loop of lex
    tokens,   \* the Token[] of lex
    cursor,   \* main's cursor
    child,    \* main's child (the last parse result)
    begin,    \* main's begin form
    heap,     \* every Context (Map) created so far, by index
    result,   \* what main prints, or the uncaught error
    log       \* history: every Sexp append returned, every evalLisp call

vars == <<pc, input, program, lex_i, tokens, cursor, child, begin, heap, result, log>>

-----------------------------------------------------------------------------
(* Bounds of the model.                                                    *)

\* The longest lexeme sequence drawn for lex.
MaxLexemes == 2
\* The longest whitespace run drawn as separator.
MaxWs == 2
\* The longest token sequence drawn for parse.
MaxTokens == 4
\* The most top-level forms of a drawn program.
MaxForms == 2
\* The deepest nesting of evalLisp calls before the engine's call stack
\* overflows (a RangeError).
MaxStack == 6

-----------------------------------------------------------------------------
(* Characters and strings.                                                 *)

Digits == {"0", "1", "2", "3", "4", "5", "6", "7", "8", "9"}
LowerCase == {"a", "b", "c", "d", "e", "f", "g", "h", "i", "j", "k", "l", "m",
              "n", "o", "p", "q", "r", "s", "t", "u", "v", "w", "x", "y", "z"}
UpperCase == {"A", "B", "C", "D", "E", "F", "G", "H", "I", "J", "K", "L", "M",
              "N", "O", "P", "Q", "R", "S", "T", "U", "V", "W", "X", "Y", "Z"}
OperatorChars == {"+", "-", "*", "&", "$", "%", "<", "="}
WhitespaceChars == {" ", "\n", "\t", "\r"}

\* program[i] of JavaScript: undefined when i is past the end.
charAt(s, i) == IF i >= 0 /\ i < Len(s) THEN s[i + 1] ELSE "undefined"

\* s.substring(from, to) for 0 <= from <= to <= s.length.
substring(s, from, to) == SubSeq(s, from + 1, to)

\* The value of one decimal digit.
digitValue(c) ==
    CASE c = "0" -> 0 [] c = "1" -> 1 [] c = "2" -> 2 [] c = "3" -> 3
      [] c = "4" -> 4 [] c = "5" -> 5 [] c = "6" -> 6 [] c = "7" -> 7
      [] c = "8" -> 8 [] c = "9" -> 9

RECURSIVE toNumber(_)
\* The unary plus of `+ast.atom.value` on a string of decimal digits.
toNumber(s) ==
    IF s = <<>> THEN 0
    ELSE 10 * toNumber(SubSeq(s, 1, Len(s) - 1)) + digitValue(s[Len(s)])

-----------------------------------------------------------------------------
(* Tokens and s-expressions.                                               *)

Token(value, kind) == [value |-> value, kind |-> kind]

\* JavaScript's null, the absence marker of a Pair's second.
null == [kind |-> "Null"]

makeSexpPair(pair) == [kind |-> "Pair", pair |-> pair]

makeSexpAtom(atom) == [kind |-> "Atom", atom |-> atom]

\* A thrown Error: no Sexp (kind) and no value (t).
Throw(message) == [kind |-> "Error", t |-> "error", message |-> message]

\* No value: no Error thrown, no head evaluated, nothing printed yet.
none == [t |-> "none"]

RECURSIVE prettyAsList(_), prettyRest(_)
\* A pretty that renders bare lists, (a b c), instead of dotted pairs.
prettyAsList(sexp) ==
    IF sexp.kind = "Atom" THEN sexp.atom.value
    ELSE <<"(">> \o prettyAsList(sexp.pair[1]) \o prettyRest(sexp.pair[2])
prettyRest(sexp) ==
    IF sexp = null THEN <<")">>
    ELSE IF sexp.kind = "Atom" THEN <<" ">> \o sexp.atom.value \o <<")">>
    ELSE <<" ">> \o prettyAsList(sexp.pair[1]) \o prettyRest(sexp.pair[2])

RECURSIVE pretty(_)
pretty(sexp) ==
    IF sexp.kind = "Atom" THEN sexp.atom.value
    ELSE IF sexp.pair[2] = null
         THEN <<"(">> \o pretty(sexp.pair[1]) \o <<" ", ".", " ", "N", "I", "L", ")">>
         ELSE <<"(">> \o pretty(sexp.pair[1]) \o <<" ", ".", " ">>
                  \o pretty(sexp.pair[2]) \o <<")">>

\* append without the walk to the end of first: a Pair is extended like an Atom.
appendNoWalk(first, second) ==
    IF first = null
    THEN IF second = null THEN Throw("Expected second.")
         ELSE makeSexpPair(<<second, null>>)
    ELSE makeSexpPair(<<first, second>>)

RECURSIVE append(_, _)
\* Returns the Sexp, or the Error thrown.
append(first, second) ==
    IF first = null
    THEN IF second = null THEN Throw("Expected second.")
         ELSE makeSexpPair(<<second, null>>)
    ELSE IF first.kind = "Atom"
         THEN makeSexpPair(<<first, second>>)
         ELSE LET rest == append(first.pair[2], second)
              IN  IF rest.kind = "Error" THEN rest
                  ELSE makeSexpPair(<<first.pair[1], rest>>)

RECURSIVE appended(_, _)
\* History: the Sexps that the call append(first, second) and its recursive
\* calls return, the outermost last; none when the call throws.
appended(first, second) ==
    IF append(first, second).kind = "Error" THEN <<>>
    ELSE (IF first # null /\ first.kind = "Pair"
          THEN appended(first.pair[2], second) ELSE <<>>)
         \o <<[ev |-> "append", res |-> append(first, second)]>>

-----------------------------------------------------------------------------
(* The lexer.                                                              *)

RECURSIVE integerEnd(_, _)
\* The while loop of lexInteger, from `end`.
integerEnd(prog, end) ==
    IF charAt(prog, end) \in Digits THEN integerEnd(prog, end + 1) ELSE end

lexInteger(prog, cur) ==
    LET end == integerEnd(prog, cur)
    IN  <<end, Token(substring(prog, cur, end), "Integer")>>

\* The loop condition of lexIdentifier without its digits.
identifierCharNoDigits(c, cur, end) ==
    \/ c \in LowerCase
    \/ c \in UpperCase
    \/ c \in OperatorChars

\* The loop condition of lexIdentifier.
identifierChar(c, cur, end) ==
    \/ c \in LowerCase
    \/ c \in UpperCase
    \/ c \in OperatorChars
    \/ (end > cur /\ c \in Digits)

RECURSIVE identifierEnd(_, _, _)
\* The while loop of lexIdentifier, from `end`.
identifierEnd(prog, cur, end) ==
    IF identifierChar(charAt(prog, end), cur, end)
    THEN identifierEnd(prog, cur, end + 1) ELSE end

lexIdentifier(prog, cur) ==
    LET end == identifierEnd(prog, cur, cur)
    IN  <<end, Token(substring(prog, cur, end), "Identifier")>>

\* const lexers = [lexInteger, lexIdentifier]
lexers == <<"lexInteger", "lexIdentifier">>

runLexer(lexer, prog, i) ==
    IF lexer = "lexInteger" THEN lexInteger(prog, i) ELSE lexIdentifier(prog, i)

\* One turn of the outer loop of lex at index i (i < program.length) with the
\* tokens pushed so far: the index after the turn's i++, the tokens, and the
\* Error if the turn throws.
lexStep(prog, i, toks) ==
    LET c == charAt(prog, i)
        tried == [k \in 1..Len(lexers) |-> runLexer(lexers[k], prog, i)]
        hits == {k \in 1..Len(lexers) : tried[k][1] # i}
        k0 == CHOOSE k \in hits : \A j \in hits : k <= j
    IN  IF c \in WhitespaceChars
        THEN [i |-> i + 1, tokens |-> toks, thrown |-> none]
        ELSE IF c = ")" \/ c = "("
        THEN [i |-> i + 1, tokens |-> Append(toks, Token(<<c>>, "Syntax")),
              thrown |-> none]
        ELSE IF hits # {}
        THEN [i |-> (tried[k0][1] - 1) + 1, tokens |-> Append(toks, tried[k0][2]),
              thrown |-> none]
        ELSE [i |-> i, tokens |-> toks,
              thrown |-> [kind |-> "Error", t |-> "error",
                          message |-> "Unknown token", index |-> i]]

RECURSIVE lexFrom(_, _, _)
\* The outer loop of lex from index i: [ok |-> TRUE, tokens], or
\* [ok |-> FALSE, error] with the Error thrown.
lexFrom(prog, i, toks) ==
    IF ~(i < Len(prog)) THEN [ok |-> TRUE, tokens |-> toks]
    ELSE LET s == lexStep(prog, i, toks)
         IN  IF s.thrown # none
             THEN [ok |-> FALSE, tokens |-> <<>>, error |-> s.thrown]
             ELSE lexFrom(prog, s.i, s.tokens)

lex(prog) == lexFrom(prog, 0, <<>>)

-----------------------------------------------------------------------------
(* The parser.                                                             *)

\* An end of the tokens that throws instead of returning the siblings.
parseEndThrows(cur, siblings, built) ==
    [cursor |-> cur, sexp |-> Throw("Unexpected end of input"), built |-> built]

\* The return of parse after its loop: the tokens ran out.
parseEnd(cur, siblings, built) ==
    [cursor |-> cur, sexp |-> siblings, built |-> built]

RECURSIVE parse(_, _), parseLoop(_, _, _, _)

\* The for loop of parse at `cur` with the siblings and the history so far.
\* Returns [cursor, sexp, built], sexp being the Error when one is thrown.
parseLoop(toks, cur, siblings, built) ==
    IF ~(cur < Len(toks)) THEN parseEnd(cur, siblings, built)
    ELSE LET t == toks[cur + 1]
         IN  IF t.value = <<"(">>
             THEN LET sub == parse(toks, cur)
                  IN  IF sub.sexp.kind = "Error"
                      THEN [sub EXCEPT !.built = built \o sub.built]
                      ELSE IF sub.sexp = null
                      THEN [cursor |-> cur, sexp |-> Throw("Expected child."),
                            built |-> built \o sub.built]
                      ELSE parseLoop(toks, sub.cursor + 1,
                                     append(siblings, sub.sexp),
                                     built \o sub.built
                                           \o appended(siblings, sub.sexp))
             ELSE IF t.value = <<")">>
             THEN [cursor |-> cur, sexp |-> siblings, built |-> built]
             ELSE parseLoop(toks, cur + 1,
                            append(siblings, makeSexpAtom(t)),
                            built \o appended(siblings, makeSexpAtom(t)))

parse(toks, cur) ==
    IF ~(cur >= 0 /\ cur < Len(toks))
    THEN \* tokens[cursor] is undefined: reading .value is a TypeError
         [cursor |-> cur, sexp |-> Throw("TypeError"), built |-> <<>>]
    ELSE IF toks[cur + 1].value # <<"(">>
    THEN [cursor |-> cur, sexp |-> Throw("Expected opening parenthesis"),
          built |-> <<>>]
    ELSE parseLoop(toks, cur + 1, null, <<>>)

-----------------------------------------------------------------------------
(* Values (EvalReturnType) and Contexts.                                   *)

Number(n) == [t |-> "number", n |-> n]
Boolean(b) == [t |-> "boolean", b |-> b]
\* JavaScript's undefined: Map.get of a missing key, an array read past the end.
undefined == [t |-> "undefined"]
\* A closure of the builtins object that evalLisp builds while it runs with
\* the Context `ctx`: the closure reads and writes that Context.
Builtin(name, ctx) == [t |-> "function", builtin |-> name, ctx |-> ctx]
\* The closure that the lambda builtin returns: it captures params and body.
Lambda(params, body) == [t |-> "function", params |-> params, body |-> body]
IsBuiltin(v) == v.t = "function" /\ "builtin" \in DOMAIN v
IsLambda(v) == v.t = "function" /\ "params" \in DOMAIN v

\* The names of the keys of the builtins object.
S_le == <<"<", "=">>
S_if == <<"i", "f">>
S_def == <<"d", "e", "f">>
S_lambda == <<"l", "a", "m", "b", "d", "a">>
S_begin == <<"b", "e", "g", "i", "n">>
S_plus == <<"+">>
S_minus == <<"-">>
BuiltinNames == {S_le, S_if, S_def, S_lambda, S_begin, S_plus, S_minus}

\* A truthiness for which only false and undefined are falsy, not 0.
truthyZero(v) ==
    ~ \/ v.t = "undefined"
      \/ (v.t = "boolean" /\ ~v.b)

\* JavaScript's truthiness of a value: `if (value)`, `!fn`, `if (test)`.
truthy(v) ==
    ~ \/ v.t = "undefined"
      \/ (v.t = "number" /\ v.n = 0)
      \/ (v.t = "boolean" /\ ~v.b)

\* ctx.get(name)
mapGet(map, name) == IF name \in DOMAIN map THEN map[name] ELSE undefined

\* ctx.set(name, value)
mapSet(map, name, value) ==
    [k \in DOMAIN map \cup {name} |-> IF k = name THEN value ELSE map[k]]

\* array[i] of JavaScript, i counted from 0.
at(array, i) == IF i >= 0 /\ i < Len(array) THEN array[i + 1] ELSE undefined

\* The order of the texts of the function values (Function.prototype.toString),
\* by which JavaScript compares two functions: the arrow functions of the
\* builtins object all start `(args) => {` and then differ at their first
\* statements; the closure of a lambda starts `(callArgs, callCtx) => {`.
sourceRank(f) ==
    IF IsLambda(f) THEN 8
    ELSE CASE f.builtin = S_minus -> 1 [] f.builtin = S_le -> 2
           [] f.builtin = S_lambda -> 3 [] f.builtin = S_def -> 4
           [] f.builtin = S_if -> 5 [] f.builtin = S_plus -> 6
           [] f.builtin = S_begin -> 7

\* JavaScript's a <= b on values: numbers compare; a boolean converts to 1 or
\* 0; undefined, and a function beside a non-function, convert to NaN, and
\* every comparison with NaN is false; two functions compare as texts.
lessEq(a, b) ==
    LET numeric(v) == v.t \in {"number", "boolean"}
        num(v) == IF v.t = "number" THEN v.n ELSE IF v.b THEN 1 ELSE 0
    IN  IF numeric(a) /\ numeric(b) THEN num(a) <= num(b)
        ELSE IF a.t = "function" /\ b.t = "function"
             THEN sourceRank(a) <= sourceRank(b)
             ELSE FALSE

-----------------------------------------------------------------------------
(* The evaluator.  Every operator takes the heap h and the history l as    *)
(* they are when it is called, and d, the nesting depth of the evalLisp    *)
(* call it runs in; it returns [val, heap, log, fn]: the value returned or *)
(* the Error thrown, and the heap and the history as it leaves them.       *)

Ret(val, h, l) == [val |-> val, heap |-> h, log |-> l, fn |-> none]

RECURSIVE evalLisp(_, _, _, _, _), evalLispArgsFrom(_, _, _, _, _, _),
          beginFrom(_, _, _, _, _, _), bindParams(_, _, _, _)

\* The while loop of evalLispArgs at currentArgNode.
evalLispArgsFrom(currentArgNode, ctx, evalLispledArgs, h, l, d) ==
    IF currentArgNode = null
    THEN Ret([t |-> "array", items |-> evalLispledArgs], h, l)
    ELSE IF currentArgNode.kind # "Pair"
    THEN Ret(Throw("Expected linked list."), h, l)
    ELSE LET r == evalLisp(currentArgNode.pair[1], ctx, h, l, d + 1)
         IN  IF r.val.t = "error" THEN r
             ELSE evalLispArgsFrom(currentArgNode.pair[2], ctx,
                                   Append(evalLispledArgs, r.val),
                                   r.heap, r.log, d)

evalLispArgs(args, ctx, h, l, d) == evalLispArgsFrom(args, ctx, <<>>, h, l, d)

builtinLessEq(args, ctx, h, l, d) ==
    LET r == evalLispArgs(args, ctx, h, l, d)
    IN  IF r.val.t = "error" THEN r
        ELSE Ret(Boolean(lessEq(at(r.val.items, 0), at(r.val.items, 1))),
                 r.heap, r.log)

builtinIf(args, ctx, h, l, d) ==
    IF ~(args.pair[2] # null /\ args.pair[2].kind = "Pair")
    THEN Ret(Throw("Expected a true-branch"), h, l)
    ELSE IF ~(args.pair[2].pair[2] # null /\ args.pair[2].pair[2].kind = "Pair")
    THEN Ret(Throw("Expected a false-branch"), h, l)
    ELSE LET test == evalLisp(args.pair[1], ctx, h, l, d + 1)
         IN  IF test.val.t = "error" THEN test
             ELSE IF truthy(test.val)
             THEN evalLisp(args.pair[2].pair[1], ctx, test.heap, test.log, d + 1)
             ELSE evalLisp(args.pair[2].pair[2].pair[1], ctx,
                           test.heap, test.log, d + 1)

builtinDef(args, ctx, h, l, d) ==
    IF ~(args.pair[1].kind = "Atom")
    THEN Ret(Throw("Expected a function name."), h, l)
    ELSE IF ~(args.pair[2] # null /\ args.pair[2].kind = "Pair")
    THEN Ret(Throw("Expected a function body."), h, l)
    ELSE LET r == evalLisp(args.pair[2].pair[1], ctx, h, l, d + 1)
         IN  IF r.val.t = "error" THEN r
             ELSE Ret(r.val,
                      [r.heap EXCEPT ![ctx] =
                           mapSet(@, args.pair[1].atom.value, r.val)],
                      r.log)

builtinLambda(args, ctx, h, l, d) == Ret(Lambda(args.pair[1], args.pair[2]), h, l)

\* The while loop of begin at `current`, res being the last value.
beginFrom(current, ctx, res, h, l, d) ==
    IF current = null THEN Ret(res, h, l)
    ELSE IF current.kind # "Pair" THEN Ret(Throw("Expected linked list."), h, l)
    ELSE LET r == evalLisp(current.pair[1], ctx, h, l, d + 1)
         IN  IF r.val.t = "error" THEN r
             ELSE beginFrom(current.pair[2], ctx, r.val, r.heap, r.log, d)

builtinBegin(args, ctx, h, l, d) == beginFrom(args, ctx, null, h, l, d)

RECURSIVE plusFrom(_, _, _)
\* The for loop of "+" over the evaluated arguments from index i.
plusFrom(items, i, res) ==
    IF ~(i < Len(items)) THEN Number(res)
    ELSE IF at(items, i).t # "number" THEN Throw("+ expects number arguments.")
    ELSE plusFrom(items, i + 1, res + at(items, i).n)

builtinPlus(args, ctx, h, l, d) ==
    LET r == evalLispArgs(args, ctx, h, l, d)
    IN  IF r.val.t = "error" THEN r
        ELSE Ret(plusFrom(r.val.items, 0, 0), r.heap, r.log)

RECURSIVE minusFrom(_, _, _)
\* The for loop of "-" over rest = evalLispledArgs.slice(1), from index i of
\* evalLispledArgs.
minusFrom(items, i, res) ==
    IF ~(i < Len(items)) THEN Number(res)
    ELSE IF at(items, i).t # "number" THEN Throw("- expects number arguments.")
    ELSE minusFrom(items, i + 1, res - at(items, i).n)

builtinMinus(args, ctx, h, l, d) ==
    LET r == evalLispArgs(args, ctx, h, l, d)
    IN  IF r.val.t = "error" THEN r
        ELSE IF at(r.val.items, 0).t # "number"
        THEN Ret(Throw("- expects number arguments."), r.heap, r.log)
        ELSE Ret(minusFrom(r.val.items, 1, at(r.val.items, 0).n), r.heap, r.log)

\* The while loop of the lambda closure that binds the parameters in
\* childCallCtx: the Map as the loop leaves it, and the Error if it throws.
bindParams(iter, i, evalLispledCallArgs, childCallCtx) ==
    IF iter = null THEN [map |-> childCallCtx, thrown |-> none]
    ELSE IF ~(iter.kind = "Pair" /\ iter.pair[1].kind = "Atom")
    THEN [map |-> childCallCtx, thrown |-> Throw("Expected argument list.")]
    ELSE bindParams(iter.pair[2], i + 1, evalLispledCallArgs,
                    mapSet(childCallCtx, iter.pair[1].atom.value,
                           at(evalLispledCallArgs, i)))

\* The closure returned by the lambda builtin, called with (callArgs, callCtx).
lambdaCall(params, body, callArgs, callCtx, h, l, d) ==
    LET r == evalLispArgs(callArgs, callCtx, h, l, d)
        h1 == Append(r.heap, r.heap[callCtx])  \* new Map(callCtx)
        childCallCtx == Len(h1)
        bound == bindParams(params, 0, r.val.items, h1[childCallCtx])
        beginAtom == makeSexpAtom(Token(S_begin, "Identifier"))
    IN  IF r.val.t = "error" THEN r
        ELSE IF bound.thrown # none
        THEN Ret(bound.thrown, [h1 EXCEPT ![childCallCtx] = bound.map], r.log)
        ELSE evalLisp(append(beginAtom, body), childCallCtx,
                      [h1 EXCEPT ![childCallCtx] = bound.map],
                      r.log \o appended(beginAtom, body), d + 1)

\* fn(args, ctx) of evalLisp: a closure of the builtins object runs with the
\* Context it closes over (its parameter list is (args) alone), the closure
\* of a lambda with the Context it is passed.
call(fn, args, ctx, h, l, d) ==
    IF IsLambda(fn) THEN lambdaCall(fn.params, fn.body, args, ctx, h, l, d)
    ELSE CASE fn.builtin = S_le -> builtinLessEq(args, fn.ctx, h, l, d)
           [] fn.builtin = S_if -> builtinIf(args, fn.ctx, h, l, d)
           [] fn.builtin = S_def -> builtinDef(args, fn.ctx, h, l, d)
           [] fn.builtin = S_lambda -> builtinLambda(args, fn.ctx, h, l, d)
           [] fn.builtin = S_begin -> builtinBegin(args, fn.ctx, h, l, d)
           [] fn.builtin = S_plus -> builtinPlus(args, fn.ctx, h, l, d)
           [] fn.builtin = S_minus -> builtinMinus(args, fn.ctx, h, l, d)

\* evalLisp on a Pair.
evalPair(ast, ctx, h, l, d) ==
    LET head == evalLisp(ast.pair[1], ctx, h, l, d + 1)
        fn == head.val
        args == ast.pair[2]
    IN  IF fn.t = "error" THEN [head EXCEPT !.fn = none]
        ELSE [(IF ~truthy(fn)
               THEN Ret(Throw("Unknown function"), head.heap, head.log)
               ELSE IF fn.t # "function"
               THEN Ret(Throw("Not a function"), head.heap, head.log)
               ELSE IF args.kind # "Pair"
               THEN Ret(Throw("Not a linked list"), head.heap, head.log)
               ELSE call(fn, args, ctx, head.heap, head.log, d))
              EXCEPT !.fn = fn]

\* evalLisp on an Atom.
evalAtom(ast, ctx, h, l) ==
    LET value == mapGet(h[ctx], ast.atom.value)
    IN  IF ast.atom.kind = "Integer"
        THEN Ret(Number(toNumber(ast.atom.value)), h, l)
        ELSE IF truthy(value) THEN Ret(value, h, l)
        ELSE IF ast.atom.value \notin BuiltinNames
        THEN Ret(Throw("Undefined value"), h, l)
        ELSE Ret(Builtin(ast.atom.value, ctx), h, l)

\* evalLisp(ast, ctx).  Its calls nest d deep; past MaxStack the engine throws
\* a RangeError.  As it returns or throws, the call is added to the history:
\* the form, the Context, the depth, the value of the head when the form is
\* a Pair, the outcome, and the bindings of the Context then.
evalLisp(ast, ctx, h, l, d) ==
    LET r == IF d > MaxStack THEN Ret(Throw("RangeError"), h, l)
             ELSE IF ast.kind = "Pair" THEN evalPair(ast, ctx, h, l, d)
             ELSE evalAtom(ast, ctx, h, l)
    IN  [r EXCEPT !.log = Append(@, [ev |-> "eval", ast |-> ast, ctx |-> ctx,
                                     depth |-> d, fn |-> r.fn, out |-> r.val,
                                     after |-> r.heap[ctx]])]

-----------------------------------------------------------------------------
(* The inputs.                                                             *)

LP == <<"(">>
RP == <<")">>

\* The lexemes drawn for lex, each with the kind it has by the token grammar:
\* syntax, integers (one or more digits), identifiers (a letter or an operator
\* character, then letters, operator characters or digits); and two strings
\* that are no lexemes of the grammar.
LexemeSet ==
    { Token(LP, "Syntax"), Token(RP, "Syntax"),
      Token(<<"0">>, "Integer"), Token(<<"4", "2">>, "Integer"),
      Token(<<"x">>, "Identifier"), Token(S_le, "Identifier"),
      Token(<<"a", "1">>, "Identifier"), Token(<<"+", "Z", "9">>, "Identifier"),
      Token(<<"1", "a">>, "Integer"), Token(<<".">>, "Identifier") }

RECURSIVE SeqsUpTo(_, _)
\* The sequences over S of length at most n.
SeqsUpTo(S, n) ==
    IF n = 0 THEN {<<>>}
    ELSE LET shorter == SeqsUpTo(S, n - 1)
         IN  shorter \cup {Append(q, e) : q \in shorter, e \in S}

\* The runs drawn as separators: 0 to MaxWs whitespace characters.
Separators == SeqsUpTo(WhitespaceChars, MaxWs)

RECURSIVE Join(_, _)
\* The strings of `parts`, with sep between each two.
Join(parts, sep) ==
    IF parts = <<>> THEN <<>>
    ELSE IF Len(parts) = 1 THEN parts[1]
    ELSE parts[1] \o sep \o Join(Tail(parts), sep)

RECURSIVE FormText(_)
\* The text of a form: its lexemes, with a space between two that are not
\* parentheses.
FormText(lexemes) ==
    IF Len(lexemes) <= 1 THEN Join(lexemes, <<>>)
    ELSE lexemes[1]
         \o (IF {lexemes[1], lexemes[2]} \cap {LP, RP} = {} THEN <<" ">> ELSE <<>>)
         \o FormText(Tail(lexemes))

\* The tokens drawn for parse.
TokenSet ==
    { Token(LP, "Syntax"), Token(RP, "Syntax"),
      Token(<<"x">>, "Identifier"), Token(<<"1">>, "Integer") }

\* The top-level forms drawn for main, each a sequence of lexemes.
FormSet ==
    { <<LP, S_def, <<"x">>, <<"0">>, RP>>,
      <<LP, S_def, <<"x">>, <<"5">>, RP>>,
      <<LP, S_def, <<"d">>, S_def, RP>>,
      <<LP, S_plus, <<"x">>, <<"1">>, RP>>,
      <<LP, S_plus, RP>>,
      <<LP, S_plus, <<"1">>, <<"2">>, <<"3">>, RP>>,
      <<LP, S_minus, <<"1", "0">>, <<"3">>, <<"2">>, RP>>,
      <<LP, S_minus, LP, S_le, <<"1">>, <<"2">>, RP, <<"1">>, RP>>,
      <<LP, S_le, LP, S_le, <<"1">>, <<"2">>, RP, <<"3">>, RP>>,
      <<LP, S_if, LP, S_minus, <<"x">>, <<"5">>, RP,
            LP, <<"n", "o">>, RP, LP, S_def, <<"y">>, <<"1">>, RP, RP>>,
      <<LP, S_if, LP, S_le, <<"x">>, <<"5">>, RP,
            LP, S_def, <<"z">>, <<"2">>, RP, LP, <<"n", "o">>, RP, RP>>,
      <<LP, LP, S_lambda, LP, <<"x">>, RP,
            LP, <<"d">>, <<"y">>, <<"7">>, RP, RP, <<"5">>, RP>>,
      <<LP, LP, S_lambda, LP, <<"y">>, RP,
            LP, S_def, <<"x">>, <<"y">>, RP, LP, S_plus, <<"x">>, <<"y">>, RP,
            RP, <<"3">>, RP>>,
      <<LP, LP, S_def, <<"f">>, LP, S_lambda, LP, <<"x">>, RP,
            LP, <<"f">>, <<"x">>, RP, RP, RP, <<"1">>, RP>>,
      <<LP, RP>>,
      <<LP, <<"x">>, <<".">>, <<"y">>, RP>> }

-----------------------------------------------------------------------------
(* main: lex, parse each top-level form into the begin form, evaluate.     *)

beginAtom == makeSexpAtom(Token(S_begin, "Identifier"))

\* const tokens = lex(program): one turn of its outer loop.
LexStep ==
    /\ pc = "lex"
    /\ lex_i < Len(program)
    /\ LET s == lexStep(program, lex_i, tokens)
       IN  IF s.thrown = none
           THEN lex_i' = s.i /\ tokens' = s.tokens /\ pc' = pc /\ result' = result
           ELSE lex_i' = lex_i /\ tokens' = tokens /\ pc' = "failed"
                /\ result' = s.thrown
    /\ UNCHANGED <<input, program, cursor, child, begin, heap, log>>

\* lex returns its tokens.
LexReturn ==
    /\ pc = "lex"
    /\ ~(lex_i < Len(program))
    /\ pc' = "parse"
    /\ UNCHANGED <<input, program, lex_i, tokens, cursor, child, begin, heap, result, log>>

\* One parse of main at cursor `at0` and the append of its child to `b`.
ParseInto(b, at0, l) ==
    LET p == parse(tokens, at0)
        b1 == append(b, p.sexp)
    IN  /\ log' = l \o p.built
                    \o (IF p.sexp.kind = "Error" THEN <<>> ELSE appended(b, p.sexp))
        /\ IF p.sexp.kind = "Error"
           THEN pc' = "failed" /\ result' = p.sexp
                /\ UNCHANGED <<cursor, child, begin>>
           ELSE /\ cursor' = p.cursor
                /\ child' = p.sexp
                /\ IF b1.kind = "Error"
                   THEN pc' = "failed" /\ result' = b1 /\ begin' = b
                   ELSE pc' = "loop" /\ result' = result /\ begin' = b1

\* begin = append(begin, null); [cursor, child] = parse(tokens, 0);
\* begin = append(begin, child)
ParseFirst ==
    /\ pc = "parse"
    /\ ParseInto(append(beginAtom, null), 0, log \o appended(beginAtom, null))
    /\ UNCHANGED <<input, program, lex_i, tokens, heap>>

\* One turn of the while loop of main.
ParseNext ==
    /\ pc = "loop"
    /\ cursor # Len(tokens) - 1
    /\ ParseInto(begin, cursor + 1, log)
    /\ UNCHANGED <<input, program, lex_i, tokens, heap>>

\* const result = evalLisp(begin, new Map); console.log(result)
Evaluate ==
    /\ pc = "loop"
    /\ cursor = Len(tokens) - 1
    /\ LET r == evalLisp(begin, 1, <<[k \in {} |-> undefined]>>, log, 0)
       IN  /\ heap' = r.heap
           /\ log' = r.log
           /\ result' = r.val
           /\ pc' = IF r.val.t = "error" THEN "failed" ELSE "done"
    /\ UNCHANGED <<input, program, lex_i, tokens, cursor, child, begin>>

Init ==
    /\ input \in [forms : SeqsUpTo(FormSet, MaxForms)]
    /\ program = Join([k \in 1..Len(input.forms) |-> FormText(input.forms[k])],
                      <<" ">>)
    /\ pc = "lex"
    /\ lex_i = 0
    /\ tokens = <<>>
    /\ cursor = 0
    /\ child = null
    /\ begin = null
    /\ heap = <<>>
    /\ result = none
    /\ log = <<>>

Next == LexStep \/ LexReturn \/ ParseFirst \/ ParseNext \/ Evaluate

Spec == Init /\ [][Next]_vars

-----------------------------------------------------------------------------
(* lex alone, on lexemes joined by a whitespace run.                       *)

InitLex ==
    /\ input \in [lexemes : SeqsUpTo(LexemeSet, MaxLexemes), sep : Separators]
    /\ program = Join([k \in 1..Len(input.lexemes) |-> input.lexemes[k].value],
                      input.sep)
    /\ pc = "lex"
    /\ lex_i = 0
    /\ tokens = <<>>
    /\ cursor = 0
    /\ child = null
    /\ begin = null
    /\ heap = <<>>
    /\ result = none
    /\ log = <<>>

NextLex == LexStep \/ LexReturn

SpecLex == InitLex /\ [][NextLex]_vars

-----------------------------------------------------------------------------
(* parse alone, on any token sequence at any cursor.                       *)

\* [cursor, child] = parse(tokens, cursor)
ParseAt ==
    /\ pc = "parseAt"
    /\ LET p == parse(tokens, cursor)
       IN  /\ log' = p.built
           /\ cursor' = p.cursor
           /\ IF p.sexp.kind = "Error"
              THEN pc' = "failed" /\ result' = p.sexp /\ child' = child
              ELSE pc' = "parsed" /\ result' = result /\ child' = p.sexp
    /\ UNCHANGED <<input, program, lex_i, tokens, begin, heap>>

InitParse ==
    /\ tokens \in SeqsUpTo(TokenSet, MaxTokens)
    /\ cursor \in 0..Len(tokens)
    /\ input = [tokens |-> tokens, cursor |-> cursor]
    /\ program = <<>>
    /\ lex_i = 0
    /\ pc = "parseAt"
    /\ child = null
    /\ begin = null
    /\ heap = <<>>
    /\ result = none
    /\ log = <<>>

SpecParse == InitParse /\ [][ParseAt]_vars

-----------------------------------------------------------------------------
(* Reading the history and the trees.                                      *)

\* The evalLisp calls of the history, by index.
EvalIdx == {i \in DOMAIN log : log[i].ev = "eval"}

RECURSIVE SortedSeq(_)
\* The numbers of S in increasing order.
SortedSeq(S) ==
    IF S = {} THEN <<>>
    ELSE LET m == CHOOSE x \in S : \A y \in S : x <= y
         IN  <<m>> \o SortedSeq(S \ {m})

\* The evalLisp calls made directly by call i, in the order made.  A call is
\* added to the history as it ends, so the calls nested in call i are the ones
\* between the last earlier call that is not deeper than i, and i.
Children(i) ==
    LET d == log[i].depth
        outside == {j \in EvalIdx : j < i /\ log[j].depth <= d}
        lo == IF outside = {} THEN 0
              ELSE CHOOSE j \in outside : \A k \in outside : k <= j
    IN  SortedSeq({j \in EvalIdx : lo < j /\ j < i /\ log[j].depth = d + 1})

RECURSIVE ProperList(_)
\* A chain of Pairs, each with a first, ending in the absence marker.
ProperList(s) ==
    \/ s = null
    \/ /\ s.kind = "Pair"
       /\ s.pair[1] # null
       /\ ProperList(s.pair[2])

RECURSIVE Items(_)
\* The elements of a proper list.
Items(s) == IF s = null THEN <<>> ELSE <<s.pair[1]>> \o Items(s.pair[2])

RECURSIVE Leaves(_)
\* The tokens of the Atoms of a tree, left to right.
Leaves(s) ==
    IF s = null THEN <<>>
    ELSE IF s.kind = "Atom" THEN <<s.atom>>
    ELSE Leaves(s.pair[1]) \o Leaves(s.pair[2])

\* A call form whose head evaluated to the builtin `name`.
CallOfBuiltin(i, name) ==
    /\ log[i].ast.kind = "Pair"
    /\ IsBuiltin(log[i].fn)
    /\ log[i].fn.builtin = name

IsIntegerAtom(s) == s.kind = "Atom" /\ s.atom.kind = "Integer"

RECURSIVE SumSeq(_)
SumSeq(q) == IF q = <<>> THEN 0 ELSE q[1] + SumSeq(Tail(q))

-----------------------------------------------------------------------------
(* The claims.                                                             *)

\* C1: evaluating (+ a1 ... an) on integer literals, n >= 0, returns the sum
\* a1 + ... + an; (+ ) returns 0.
C1_PlusReturnsSum ==
    \A i \in EvalIdx :
        LET e == log[i] IN
        ( /\ e.ast.kind = "Pair"
          /\ e.ast.pair[1] = makeSexpAtom(Token(S_plus, "Identifier"))
          /\ e.fn = Builtin(S_plus, e.ctx)
          /\ ProperList(e.ast.pair[2])
          /\ \A k \in DOMAIN Items(e.ast.pair[2]) :
                 IsIntegerAtom(Items(e.ast.pair[2])[k]) )
        => e.out = Number(SumSeq([k \in DOMAIN Items(e.ast.pair[2]) |->
                              toNumber(Items(e.ast.pair[2])[k].atom.value)]))

\* A completed call (def name body) through the builtin's own name.
DefDone(i) ==
    /\ CallOfBuiltin(i, S_def)
    /\ log[i].ast.pair[1] = makeSexpAtom(Token(S_def, "Identifier"))
    /\ log[i].out.t # "error"

\* A completed call of the def builtin, by any name, that binds `name`.
Rebinds(k, name) ==
    /\ CallOfBuiltin(k, S_def)
    /\ log[k].out.t # "error"
    /\ log[k].ast.pair[2].pair[1].atom.value = name

\* C2: (def name body) returns the value v of body, and every later
\* evaluation of the identifier name in the same Context, before another def
\* of name, returns v: for every value v and every name.
C2_DefThenLookup ==
    \A i \in EvalIdx : DefDone(i) =>
        LET name == log[i].ast.pair[2].pair[1].atom.value
            kids == Children(i)
        IN  /\ log[i].out = log[kids[Len(kids)]].out
            /\ \A j \in EvalIdx :
                   ( /\ j > i
                     /\ log[j].ast = makeSexpAtom(Token(name, "Identifier"))
                     /\ log[j].ctx = log[i].ctx
                     /\ ~ \E k \in EvalIdx : i < k /\ k < j /\ Rebinds(k, name) )
                   => log[j].out = log[i].out

\* C3: when a call of a lambda returns, the bindings of the caller's Context
\* are those it had when the argument expressions had been evaluated.
C3_LambdaCallKeepsCallerContext ==
    \A i \in EvalIdx :
        (log[i].ast.kind = "Pair" /\ IsLambda(log[i].fn) /\ log[i].out.t # "error")
        => LET kids == Children(i)
               lastArg == log[kids[Len(kids) - 1]]
           IN  /\ lastArg.ctx = log[i].ctx
               /\ log[i].after = lastArg.after

\* C5: a call of +, - or <= with an evaluated argument that is not a Number
\* fails with an error.
C5_NonNumberArgumentFails ==
    \A i \in EvalIdx :
        ( /\ \E name \in {S_plus, S_minus, S_le} : CallOfBuiltin(i, name)
          /\ \E k \in 2..Len(Children(i)) :
                 log[Children(i)[k]].out.t \in {"boolean", "function"} )
        => log[i].out.t = "error"

\* C8: a builtin called by a form evaluated in the Context c evaluates its
\* argument forms in c, and def writes its binding into c, by whatever name
\* the head evaluated to the builtin.
C8_BuiltinRunsInCallContext ==
    \A i \in EvalIdx :
        ( \E name \in {S_le, S_if, S_def, S_begin, S_plus, S_minus} :
              CallOfBuiltin(i, name) )
        => /\ \A k \in DOMAIN Children(i) :
                  log[Children(i)[k]].ctx = log[i].ctx
           /\ (CallOfBuiltin(i, S_def) /\ log[i].out.t # "error")
              => mapGet(log[i].after, log[i].ast.pair[2].pair[1].atom.value)
                     = log[i].out

\* "neither 0 nor false", as the claim words the test of an if.
SelectsThen(v) == v # Number(0) /\ v # Boolean(FALSE)

ValidLexeme(tok) ==
    LET v == tok.value
        start == LowerCase \cup UpperCase \cup OperatorChars
    IN  \/ tok.kind = "Syntax" /\ v \in {LP, RP}
        \/ tok.kind = "Integer" /\ v # <<>> /\ \A k \in DOMAIN v : v[k] \in Digits
        \/ /\ tok.kind = "Identifier" /\ v # <<>> /\ v[1] \in start
           /\ \A k \in DOMAIN v : v[k] \in start \cup Digits

\* C6: lex of valid lexemes joined by non-empty whitespace runs returns those
\* lexemes as tokens, each with its kind, whatever the whitespace.
C6_LexReturnsTheLexemes ==
    ( /\ \A k \in DOMAIN input.lexemes : ValidLexeme(input.lexemes[k])
      /\ input.sep # <<>> )
    => /\ pc # "failed"
       /\ pc = "parse" => tokens = input.lexemes

\* Two lexemes, an identifier with a digit and an integer, a tab and a newline
\* between them, have been lexed.
C6_Witness ==
    /\ pc = "parse"
    /\ input.sep = <<"\t", "\n">>
    /\ input.lexemes = <<Token(<<"a", "1">>, "Identifier"),
                         Token(<<"4", "2">>, "Integer")>>
    /\ Len(tokens) = 2

\* parse was called on a '(' and returned at the ')' that closes it.
ParsedClosedForm ==
    /\ pc = "parsed"
    /\ child # null
    /\ cursor < Len(tokens)
    /\ tokens[cursor + 1].value = RP

\* C7 as claimed: the tree of a well-formed form, rendered by pretty, lexed and
\* parsed again, is the same tree.
C7_PrettyRoundTrip ==
    ParsedClosedForm =>
        LET again == lex(pretty(child))
        IN  /\ again.ok
            /\ parse(again.tokens, 0).sexp = child

\* The index of the first '.' of a text.
FirstDot(text) ==
    CHOOSE k \in 0..(Len(text) - 1) :
        /\ text[k + 1] = "."
        /\ \A j \in 0..(k - 1) : text[j + 1] # "."

\* C7 as amended: the text that pretty renders of the tree of a well-formed
\* form is dotted-pair text, and lex throws "Unknown token" at its first '.'.
C7_PrettyTextIsNotLexed ==
    ParsedClosedForm =>
        LET text == pretty(child)
            again == lex(text)
        IN  /\ \E k \in DOMAIN text : text[k] = "."
            /\ ~again.ok
            /\ again.error.message = "Unknown token"
            /\ again.error.index = FirstDot(text)

\* A closed form of two elements or more has been parsed.
C7_Witness ==
    /\ ParsedClosedForm
    /\ input.cursor = 0
    /\ child.pair[2] # null

\* The '(' of toks[c] minus the ')' from c to k.
Depth(toks, c, k) ==
    Cardinality({j \in c..k : toks[j + 1].value = LP})
        - Cardinality({j \in c..k : toks[j + 1].value = RP})

\* The tokens run out before the ')' that matches the '(' at c.
Unterminated(toks, c) ==
    /\ c < Len(toks)
    /\ toks[c + 1].value = LP
    /\ \A k \in c..(Len(toks) - 1) : Depth(toks, c, k) > 0

\* parse was called on the '(' of an unterminated form.
ParsedUnterminated ==
    /\ pc # "parseAt"
    /\ Unterminated(input.tokens, input.cursor)

\* C9 as claimed: on an unterminated form parse throws nothing and returns
\* the list accumulated, the absence marker when there is no element.
C9_UnterminatedReturnsList ==
    ParsedUnterminated =>
        /\ pc = "parsed"
        /\ ProperList(child)
        /\ child = null <=> input.cursor = Len(tokens) - 1

\* A '(' after c that opens an empty form: the last token, or followed by ')'.
EmptyFormAfter(toks, c) ==
    \E j \in (c + 1)..(Len(toks) - 1) :
        /\ toks[j + 1].value = LP
        /\ j = Len(toks) - 1 \/ toks[j + 2].value = RP

\* C9 as amended: on an unterminated form parse throws "Expected child." when
\* a '(' after the cursor opens an empty form; otherwise it throws nothing and
\* returns, with a cursor past the tokens, the list accumulated: the absence
\* marker when no token follows, else a proper list of the atoms that follow.
C9_UnterminatedReturnsListUnlessEmptyForm ==
    ParsedUnterminated =>
        IF EmptyFormAfter(input.tokens, input.cursor)
        THEN pc = "failed" /\ result = Throw("Expected child.")
        ELSE /\ pc = "parsed"
             /\ cursor >= Len(tokens)
             /\ ProperList(child)
             /\ child = null <=> input.cursor = Len(tokens) - 1
             /\ Leaves(child)
                    = SelectSeq(SubSeq(tokens, input.cursor + 2, Len(tokens)),
                                LAMBDA t : t.value \notin {LP, RP})

\* An unterminated form with a nested unterminated form has been parsed.
C9_Witness ==
    /\ ParsedUnterminated
    /\ pc = "parsed"
    /\ child # null
    /\ \E j \in (input.cursor + 1)..(Len(tokens) - 1) : tokens[j + 1].value = LP

\* C10: every Sexp that append returns is a Pair with a first whose seconds
\* end in the absence marker, and no "Expected linked list." is thrown.
C10_AppendBuildsProperLists ==
    /\ \A k \in DOMAIN log :
           log[k].ev = "append"
           => /\ log[k].res.kind = "Pair"
              /\ ProperList(log[k].res)
    /\ \A k \in EvalIdx : log[k].out # Throw("Expected linked list.")
    /\ result # Throw("Expected linked list.")

\* A run has ended with a value after append built the begin form of a
\* lambda call.
C10_Witness ==
    /\ pc = "done"
    /\ \E j, k \in DOMAIN log :
           j < k /\ log[j].ev = "eval" /\ log[k].ev = "append"
=============================================================================
